---- MODULE Spec2Model ----
(***************************************************************************)
(* Model of the recipe pipeline: the ETL stage of                          *)
(* etl_export_transform.py (checkpoint, version directories, backup,       *)
(* fetch, merge, snapshot write), the partitioning of validation.py and    *)
(* the stage order of run_pipeline.py.                                     *)
(*                                                                         *)
(* Time is a logical clock: `now` counts the writes the source has         *)
(* received.  A document written as the k-th write carries updated_at = k, *)
(* and a utcnow() read between write k and write k+1 returns k, so every   *)
(* comparison "updated_at > checkpoint" has the truth value it has in real *)
(* time.                                                                   *)
(***************************************************************************)
EXTENDS Integers, Sequences, FiniteSets, TLC

(***************************************************************************)
(* Bounds of the model.                                                    *)
(***************************************************************************)
MaxWrites == 2
MaxRuns == 2
MaxFaults == 1
MaxRows == 2
MaxVersionNum == 3
MaxCalls == 3
MaxSerialRuns == 3

(***************************************************************************)
(* Cells.  A value in a DataFrame is a string, a number or NaN; a cell of  *)
(* a CSV file is text.                                                     *)
(***************************************************************************)
Str(s) == [t |-> "str", v |-> s]
Num(s) == [t |-> "num", v |-> s]
NaN == [t |-> "nan", v |-> ""]

\* texts pandas.read_csv parses as numbers
NumericTexts == {"-5", "-1", "0", "1", "2", "4", "5", "6", "7", "10"}
\* texts pandas.read_csv parses as missing
NaTexts == {"", "NaN"}

\* DataFrame.to_csv(index=False): a frame without rows (pd.DataFrame([]) has
\* no columns either) gives a file without header and without rows.
to_csv(df) ==
    [i \in 1..Len(df) |-> [c \in DOMAIN df[i] |-> df[i][c].v]]

\* column c of the file parses as numbers
ColumnIsNumeric(file, c) ==
    \A i \in 1..Len(file) : file[i][c] \in NumericTexts \cup NaTexts

\* pd.read_csv fails on a file without columns (EmptyDataError)
CsvReadable(file) == file # <<>>

\* pd.read_csv: missing texts become NaN, a column of numeric texts becomes
\* numbers, every other column keeps its texts as strings.
read_csv(file) ==
    [i \in 1..Len(file) |->
        [c \in DOMAIN file[i] |->
            IF file[i][c] \in NaTexts THEN NaN
            ELSE IF ColumnIsNumeric(file, c) THEN Num(file[i][c])
            ELSE Str(file[i][c])]]

(***************************************************************************)
(* Merge engine.                                                           *)
(***************************************************************************)
\* the values of the key columns of a row
KeyOf(row, key_columns) == [c \in key_columns |-> row[c]]

RECURSIVE SelectIdx(_, _, _)
\* the rows of df whose index is in keep, from index i on, in order
SelectIdx(df, keep, i) ==
    IF i > Len(df) THEN <<>>
    ELSE (IF i \in keep THEN <<df[i]>> ELSE <<>>) \o SelectIdx(df, keep, i + 1)

\* DataFrame.drop_duplicates(subset=key_columns, keep="last")
drop_duplicates(df, subset) ==
    SelectIdx(df,
              {i \in 1..Len(df) :
                  \A j \in (i + 1)..Len(df) : KeyOf(df[j], subset) # KeyOf(df[i], subset)},
              1)

\* the columns of a frame (none for a frame without rows)
Columns(df) == UNION {DOMAIN df[i] : i \in 1..Len(df)}

(***************************************************************************)
(* Names of the entries of ETL_Output.  base = "v" stands for the name     *)
(* v<num>_<ts>; every other base is the literal name of the entry.         *)
(***************************************************************************)
\* f"v{new_num}_{ts_str}"
FolderName(n, t) == [base |-> "v", num |-> n, ts |-> t]
\* a literal name
Literal(s) == [base |-> s, num |-> -1, ts |-> 0]
\* prev_dir = None
NoDir == Literal("")

\* os.path.exists(os.path.join(prev_dir, filename))
FileExists(fsv, dir, filename) ==
    /\ dir \in DOMAIN fsv
    /\ fsv[dir].isdir
    /\ filename \in DOMAIN fsv[dir].files

\* a mutation of merge_with_existing: the incremental flag is not tested
merge_ignores_incremental(df_new, prev_dir, filename, key_columns, incremental, fsv) ==
    IF prev_dir # NoDir /\ FileExists(fsv, prev_dir, filename)
    THEN LET file == fsv[prev_dir].files[filename]
             combined == read_csv(file) \o df_new
         IN  IF ~CsvReadable(file) THEN df_new
             ELSE IF key_columns # {}
                  THEN IF key_columns \subseteq Columns(combined)
                       THEN drop_duplicates(combined, key_columns)
                       ELSE df_new
                  ELSE combined
    ELSE df_new

\* a mutation of merge_with_existing: a previous file that cannot be read
\* gives an empty frame
merge_drops_on_damage(df_new, prev_dir, filename, key_columns, incremental, fsv) ==
    IF incremental /\ prev_dir # NoDir /\ FileExists(fsv, prev_dir, filename)
    THEN LET file == fsv[prev_dir].files[filename]
             combined == read_csv(file) \o df_new
         IN  IF ~CsvReadable(file) THEN <<>>
             ELSE IF key_columns # {}
                  THEN IF key_columns \subseteq Columns(combined)
                       THEN drop_duplicates(combined, key_columns)
                       ELSE df_new
                  ELSE combined
    ELSE df_new

\* a mutation of merge_with_existing: without key columns the duplicates
\* over all columns are dropped
merge_dedups_without_keys(df_new, prev_dir, filename, key_columns, incremental, fsv) ==
    IF incremental /\ prev_dir # NoDir /\ FileExists(fsv, prev_dir, filename)
    THEN LET file == fsv[prev_dir].files[filename]
             combined == read_csv(file) \o df_new
         IN  IF ~CsvReadable(file) THEN df_new
             ELSE IF key_columns # {}
                  THEN IF key_columns \subseteq Columns(combined)
                       THEN drop_duplicates(combined, key_columns)
                       ELSE df_new
                  ELSE drop_duplicates(combined, Columns(combined))
    ELSE df_new

\* merge_with_existing: the frame written for one entity
merge_with_existing(df_new, prev_dir, filename, key_columns, incremental, fsv) ==
    IF incremental /\ prev_dir # NoDir /\ FileExists(fsv, prev_dir, filename)
    THEN LET file == fsv[prev_dir].files[filename]
             combined == read_csv(file) \o df_new
         IN  IF ~CsvReadable(file) THEN df_new
             ELSE IF key_columns # {}
                  THEN IF key_columns \subseteq Columns(combined)
                       THEN drop_duplicates(combined, key_columns)
                       ELSE df_new
                  ELSE combined
    ELSE df_new

(***************************************************************************)
(* Checkpoint store.  The text of etl_checkpoint.txt is an ISO timestamp,  *)
(* empty, or something fromisoformat rejects; NoFile is the missing file.  *)
(***************************************************************************)
NoFile == [fmt |-> "nofile", t |-> 0]
EmptyText == [fmt |-> "empty", t |-> 0]
\* a text fromisoformat rejects (a part of a timestamp)
Garbage == [fmt |-> "garbage", t |-> 0]
\* ts.isoformat()
isoformat(t) == [fmt |-> "iso", t |-> t]
\* last_ts = None
None == -1

\* a mutation of get_last_run_timestamp: a file without a timestamp counts
\* as the earliest time
get_last_run_timestamp_epoch(ckfile) ==
    IF ckfile.fmt = "iso" THEN ckfile.t ELSE 0

\* get_last_run_timestamp
get_last_run_timestamp(ckfile) ==
    IF ckfile = NoFile THEN None
    ELSE IF ckfile.fmt = "empty" THEN None
    ELSE IF ckfile.fmt = "iso" THEN ckfile.t
    ELSE None

\* save_last_run_timestamp: the file after the call.  open(..., "w") may
\* fail (file untouched), or the write may fail after the truncation and
\* leave nothing or a part of the text.
save_last_run_timestamp(ckfile, t, io) ==
    CASE io = "ok" -> isoformat(t)
      [] io = "open_fails" -> ckfile
      [] io = "write_fails" -> EmptyText
      [] OTHER -> Garbage

(***************************************************************************)
(* Version directory manager.  fsv maps the names of the entries of        *)
(* ETL_Output to [isdir, files]; files maps file names to CSV texts.       *)
(***************************************************************************)
StartsWithV(name) == name.base \in {"v", "vx_0", "v9"}
HasUnderscore(name) == name.base \in {"v", "vx_0", "etl_checkpoint.txt"}
\* int(prefix[1:]) succeeds
IntAfterV(name) == name.base = "v"

\* a mutation of _list_version_dirs: the isdir test is dropped
list_version_dirs_any(fsv) ==
    {name \in DOMAIN fsv :
        StartsWithV(name) /\ HasUnderscore(name) /\ IntAfterV(name)}

\* _list_version_dirs: the names counted as versions (the number is name.num)
list_version_dirs(fsv) ==
    {name \in DOMAIN fsv :
        /\ fsv[name].isdir
        /\ StartsWithV(name) /\ HasUnderscore(name)
        /\ IntAfterV(name)}

\* max(v[0] for v in versions), 0 without versions
max_num(versions) ==
    IF versions = {} THEN 0
    ELSE CHOOSE m \in {v.num : v \in versions} :
             \A v \in versions : v.num <= m

\* get_latest_version_dir: the paths the call may return.  The sort is by
\* number alone, so among directories of the same number the listing order
\* decides.
get_latest_version_dir(fsv) ==
    LET versions == list_version_dirs(fsv)
    IN  IF versions = {} THEN {NoDir}
        ELSE {v \in versions : v.num = max_num(versions)}

\* a mutation of create_new_version_dir: the highest number is taken again
new_version_name_reuses_max(fsv, t) ==
    FolderName(IF list_version_dirs(fsv) = {} THEN 1
               ELSE max_num(list_version_dirs(fsv)), t)

\* a mutation of create_new_version_dir: numbers by count
new_version_name_by_count(fsv, t) ==
    FolderName(Cardinality(list_version_dirs(fsv)) + 1, t)

\* create_new_version_dir: the name of the new folder
new_version_name(fsv, t) ==
    FolderName(max_num(list_version_dirs(fsv)) + 1, t)

EmptyFiles == [f \in {} |-> <<>>]

\* a mutation of create_new_version_dir: os.makedirs(full_path, exist_ok=True)
create_collides_never(fsv, t) == FALSE

\* create_new_version_dir: os.makedirs(full_path, exist_ok=False) raises when
\* the path exists
create_collides(fsv, t) == new_version_name(fsv, t) \in DOMAIN fsv

\* create_new_version_dir: the output root after a successful call
create_new_version_dir(fsv, t) ==
    [name \in DOMAIN fsv \cup {new_version_name(fsv, t)} |->
        IF name \in DOMAIN fsv THEN fsv[name]
        ELSE [isdir |-> TRUE, files |-> EmptyFiles]]

\* a mutation of backup_previous_version: the test for an existing
\* destination is dropped and the copy replaces it
backup_always_copies(bkv, fsv, prev_path, bk) ==
    IF prev_path = NoDir \/ bk = "scan_fails" THEN bkv
    ELSE [name \in DOMAIN bkv \cup {prev_path} |->
            IF name # prev_path THEN bkv[name]
            ELSE IF bk = "ok" THEN fsv[prev_path].files
            ELSE EmptyFiles]

\* backup_previous_version: the backup root after the call.  bk is what
\* shutil.copytree does: "ok", "scan_fails" (it fails before it makes the
\* destination) or "copy_fails" (it has made the destination and fails on
\* the files).
backup_previous_version(bkv, fsv, prev_path, bk) ==
    IF prev_path = NoDir THEN bkv
    ELSE IF prev_path \in DOMAIN bkv THEN bkv
    ELSE IF bk = "scan_fails" THEN bkv
    ELSE [name \in DOMAIN bkv \cup {prev_path} |->
            IF name \in DOMAIN bkv THEN bkv[name]
            ELSE IF bk = "ok" THEN fsv[prev_path].files
            ELSE EmptyFiles]
(***************************************************************************)
(* The source: three collections of documents.  A write stores the         *)
(* document under its id with updated_at = the time of the write.          *)
(***************************************************************************)
RecipeIds == {"r1"}
UserIds == {"u1"}
InteractionIds == {}
Names == {"a", "b"}

\* the documents a writer may store
RecipeDocs ==
    {[id |-> r, name |-> n,
      ingredients |-> <<[ingredient_id |-> "g1", name |-> n]>>,
      steps |-> <<[step_no |-> "1", instruction |-> n]>>] :
        r \in RecipeIds, n \in Names}
UserDocs == {[id |-> u, name |-> n] : u \in UserIds, n \in {"a"}}
InteractionDocs == {[id |-> i, type |-> n] : i \in InteractionIds, n \in {"a"}}

Docs == [recipes |-> RecipeDocs, users |-> UserDocs, interactions |-> InteractionDocs]

Stamp(doc, t) == [d |-> doc, updated_at |-> t]

\* db.collection(c).document(id).set(doc)
SetDoc(coll, doc, t) ==
    {x \in coll : x.d.id # doc.id} \cup {Stamp(doc, t)}

RECURSIVE Stream(_)
\* the documents of a query as a sequence (by updated_at, which no two
\* documents share)
Stream(docs) ==
    IF docs = {} THEN <<>>
    ELSE LET first == CHOOSE x \in docs : \A y \in docs : x.updated_at <= y.updated_at
         IN  <<first.d>> \o Stream(docs \ {first})

\* fetch_firestore_data: one collection, whole or where updated_at > last_run_ts
query(coll, last_run_ts) ==
    IF last_run_ts = None THEN Stream(coll)
    ELSE Stream({x \in coll : x.updated_at > last_run_ts})

\* fetch_firestore_data
fetch_firestore_data(src, last_run_ts) ==
    [recipes |-> query(src.recipes, last_run_ts),
     users |-> query(src.users, last_run_ts),
     interactions |-> query(src.interactions, last_run_ts)]

(***************************************************************************)
(* Normalizer and snapshot write.                                          *)
(***************************************************************************)
RECURSIVE Flatten(_)
Flatten(seqs) == IF seqs = <<>> THEN <<>> ELSE Head(seqs) \o Flatten(Tail(seqs))

recipe_rows(recipes) ==
    [i \in 1..Len(recipes) |->
        [recipe_id |-> Str(recipes[i].id), name |-> Str(recipes[i].name)]]

ingredients_rows(recipes) ==
    Flatten([i \in 1..Len(recipes) |->
        [j \in 1..Len(recipes[i].ingredients) |->
            [ingredient_id |-> Str(recipes[i].ingredients[j].ingredient_id),
             recipe_id |-> Str(recipes[i].id),
             name |-> Str(recipes[i].ingredients[j].name)]]])

steps_rows(recipes) ==
    Flatten([i \in 1..Len(recipes) |->
        [j \in 1..Len(recipes[i].steps) |->
            [recipe_id |-> Str(recipes[i].id),
             step_no |-> Num(recipes[i].steps[j].step_no),
             instruction |-> Str(recipes[i].steps[j].instruction)]]])

interactions_rows(interactions) ==
    [i \in 1..Len(interactions) |->
        [interaction_id |-> Str(interactions[i].id), type |-> Str(interactions[i].type)]]

users_rows(users) ==
    [i \in 1..Len(users) |->
        [user_id |-> Str(users[i].id), name |-> Str(users[i].name)]]

\* the entity files in the order normalize_and_save writes them
EntityFiles == <<"recipe.csv", "ingredients.csv", "steps.csv", "interactions.csv", "users.csv">>
FileSet == {EntityFiles[i] : i \in 1..Len(EntityFiles)}

\* the key columns normalize_and_save passes for each file
key_columns(filename) ==
    CASE filename = "recipe.csv" -> {"recipe_id"}
      [] filename = "ingredients.csv" -> {"ingredient_id"}
      [] filename = "steps.csv" -> {"recipe_id", "step_no"}
      [] filename = "interactions.csv" -> {"interaction_id"}
      [] OTHER -> {"user_id"}

\* the new rows of each file
new_rows(data, filename) ==
    CASE filename = "recipe.csv" -> recipe_rows(data.recipes)
      [] filename = "ingredients.csv" -> ingredients_rows(data.recipes)
      [] filename = "steps.csv" -> steps_rows(data.recipes)
      [] filename = "interactions.csv" -> interactions_rows(data.interactions)
      [] OTHER -> users_rows(data.users)

\* the text normalize_and_save writes for one file
final_csv(data, filename, incremental, prev_version_dir, fsv) ==
    to_csv(merge_with_existing(new_rows(data, filename), prev_version_dir,
                               filename, key_columns(filename), incremental, fsv))

\* a mutation of normalize_and_save: the snapshot goes into the previous
\* version's directory when there is one
write_dir_prev(prev_version_dir, new_version_dir) ==
    IF prev_version_dir # NoDir THEN prev_version_dir ELSE new_version_dir

\* normalize_and_save: the directory the to_csv calls write into
write_dir(prev_version_dir, new_version_dir) == new_version_dir

\* normalize_and_save: the output root after the first k files are written
\* (k = 5: the call returns; k < 5: a to_csv call raises)
normalize_and_save(data, incremental, prev_version_dir, new_version_dir, fsv, k) ==
    LET target == write_dir(prev_version_dir, new_version_dir)
        written == {EntityFiles[i] : i \in 1..k}
    IN  [fsv EXCEPT ![target].files =
            [f \in DOMAIN fsv[target].files \cup written |->
                IF f \in written
                THEN final_csv(data, f, incremental, prev_version_dir, fsv)
                ELSE fsv[target].files[f]]]
(***************************************************************************)
(* State of the pipeline.                                                  *)
(***************************************************************************)
VARIABLES
    now,              \* the clock
    source,           \* the collections of the document store
    checkpoint,       \* the text of ETL_Output/etl_checkpoint.txt
    fs,               \* the entries of ETL_Output with a version-like name
    backup,           \* the directories of ETL_Output/Backup
    pc,               \* where the run stands
    orchestrated,     \* the run is run_pipeline.run, not the ETL script alone
    last_ts,          \* main: last_ts
    prev_version_dir, \* main: prev_version_dir
    new_version_dir,  \* main: new_version_dir
    incremental,      \* main: incremental
    data,             \* main: recipes, users, interactions
    runs,             \* the number of runs started
    faults,           \* the number of I/O failures so far
    run_start,        \* the clock when the current run began
    ckpt_before,      \* the checkpoint file when the current run began
    outcome,          \* how the last ETL stage or pipeline run ended
    val_input,        \* what validation.main read
    input,            \* the arguments a single function is called with
    output            \* what it returns

vars == <<now, source, checkpoint, fs, backup, pc, orchestrated, last_ts,
          prev_version_dir, new_version_dir, incremental, data, runs, faults,
          run_start, ckpt_before, outcome, val_input,
          input, output>>

run_locals == <<last_ts, prev_version_dir, new_version_dir, incremental, data>>
history == <<run_start, ckpt_before>>
pure == <<input, output, orchestrated>>

NoData == [recipes |-> <<>>, users |-> <<>>, interactions |-> <<>>]
EmptySource == [recipes |-> {}, users |-> {}, interactions |-> {}]

\* an entry of ETL_Output that is a regular file with the name of the first
\* version folder
StrayFile == [isdir |-> FALSE, files |-> EmptyFiles]

\* entity files left directly in ETL_Output (the flat layout validation.py
\* reads)
FlatFiles ==
    [f \in FileSet |->
        to_csv(new_rows([recipes |-> <<[id |-> "r0", name |-> "a",
                                        ingredients |-> <<[ingredient_id |-> "g0", name |-> "a"]>>,
                                        steps |-> <<[step_no |-> "1", instruction |-> "a"]>>]>>,
                         users |-> <<[id |-> "u0", name |-> "a"]>>,
                         interactions |-> <<[id |-> "i0", type |-> "a"]>>], f))]

InitEtl ==
    /\ now = 0
    /\ source = EmptySource
    /\ checkpoint = NoFile
    /\ fs \in {EmptyFiles, [n \in {FolderName(1, 0)} |-> StrayFile]}
    /\ backup = EmptyFiles
    /\ pc = "idle"
    /\ last_ts = None
    /\ prev_version_dir = NoDir
    /\ new_version_dir = NoDir
    /\ incremental = FALSE
    /\ data = NoData
    /\ runs = 0
    /\ faults = 0
    /\ run_start = 0
    /\ ckpt_before = NoFile
    /\ outcome = "none"
    /\ val_input = EmptyFiles
    /\ input = <<>>
    /\ output = <<>>

(***************************************************************************)
(* The source is written at any time, also while a run is in progress.     *)
(***************************************************************************)
SourceWrite ==
    /\ now < MaxWrites
    /\ now' = now + 1
    /\ \E c \in DOMAIN Docs : \E doc \in Docs[c] :
          source' = [source EXCEPT ![c] = SetDoc(@, doc, now + 1)]
    /\ UNCHANGED <<checkpoint, fs, backup, pc, run_locals, runs, faults,
                   history, outcome, val_input, pure>>

(***************************************************************************)
(* etl_export_transform.main                                               *)
(***************************************************************************)
\* a mutation of main's except branch: it saves the checkpoint
main_except_saves(ckfile, t) == isoformat(t)

\* main, except branch (log and re-raise): the checkpoint file afterwards
main_except(ckfile, t) == ckfile

\* what an I/O call may do: succeed, or fail in one of the given ways while
\* the behaviour has failures left
Outcomes(failures) == {"ok"} \cup (IF faults < MaxFaults THEN failures ELSE {})
\* the count of failures after a call that did io
Failed(io) == IF io = "ok" THEN faults ELSE faults + 1

\* the locals of main are gone when the run has ended
ForgetLocals ==
    /\ last_ts' = None
    /\ prev_version_dir' = NoDir
    /\ new_version_dir' = NoDir
    /\ incremental' = FALSE
    /\ data' = NoData
    /\ run_start' = 0

Forget == ForgetLocals /\ ckpt_before' = NoFile

\* a mutation of Abort: under run_pipeline.run the failure of the ETL stage
\* is swallowed and validation runs next
Abort_swallowed(before) ==
    /\ pc' = IF orchestrated THEN "validate" ELSE "idle"
    /\ outcome' = "failed"
    /\ checkpoint' = main_except(checkpoint, now)
    /\ ckpt_before' = before
    /\ ForgetLocals

\* the run ends in the except branch of main; before is the checkpoint file
\* the run found
Abort(before) ==
    /\ pc' = "idle"
    /\ outcome' = "failed"
    /\ checkpoint' = main_except(checkpoint, now)
    /\ ckpt_before' = before
    /\ ForgetLocals

\* what backup_previous_version may do: nothing without a previous version,
\* os.makedirs(backup_root) may raise, shutil.copytree may raise when the
\* backup is not there yet
BackupOutcomes(prev) ==
    IF prev = NoDir THEN {"ok"}
    ELSE IF prev \in DOMAIN backup THEN Outcomes({"root_fails"})
    ELSE Outcomes({"scan_fails", "copy_fails", "root_fails"})

\* main up to create_new_version_dir: read the checkpoint, resolve the
\* previous version, back it up, create the new folder; at most bound runs
\* are started
RunStartWithin(bound) ==
    /\ pc = "idle"
    /\ runs < bound
    /\ runs' = runs + 1
    /\ \E prev \in get_latest_version_dir(fs) :
        \E bk \in BackupOutcomes(prev) :
         /\ faults' = Failed(bk)
         /\ IF prev # NoDir /\ bk = "root_fails"
            THEN \* os.makedirs(backup_root) raises
                 /\ UNCHANGED <<backup, fs>>
                 /\ Abort(checkpoint)
            ELSE /\ backup' = backup_previous_version(backup, fs, prev, bk)
                 /\ IF create_collides(fs, now)
                    THEN /\ UNCHANGED fs
                         /\ Abort(checkpoint)
                    ELSE /\ fs' = create_new_version_dir(fs, now)
                         /\ new_version_dir' = new_version_name(fs, now)
                         /\ last_ts' = get_last_run_timestamp(checkpoint)
                         /\ prev_version_dir' = prev
                         /\ incremental' =
                               (get_last_run_timestamp(checkpoint) # None /\ prev # NoDir)
                         /\ run_start' = now
                         /\ ckpt_before' = checkpoint
                         /\ pc' = "fetch"
                         /\ UNCHANGED <<outcome, checkpoint, data>>
    /\ UNCHANGED <<now, source, val_input, pure>>

RunStart == RunStartWithin(MaxRuns)

\* main: fetch_firestore_data returns
Fetch ==
    /\ pc = "fetch"
    /\ data' = fetch_firestore_data(source, last_ts)
    /\ pc' = "save"
    /\ UNCHANGED <<now, source, checkpoint, fs, backup, last_ts,
                   prev_version_dir, new_version_dir, incremental, runs,
                   faults, history, outcome, val_input, pure>>

\* main: fetch_firestore_data raises
FetchFails ==
    /\ pc = "fetch"
    /\ faults < MaxFaults
    /\ faults' = faults + 1
    /\ Abort(ckpt_before)
    /\ UNCHANGED <<now, source, fs, backup, runs, val_input, pure>>

\* main: normalize_and_save returns
NormalizeAndSave ==
    /\ pc = "save"
    /\ fs' = normalize_and_save(data, incremental, prev_version_dir,
                                new_version_dir, fs, Len(EntityFiles))
    /\ pc' = "checkpoint"
    /\ UNCHANGED <<now, source, checkpoint, backup, run_locals,
                   runs, faults, history, outcome, val_input, pure>>

\* the numbers of files a failing normalize_and_save has written
FailAfter == {0, 3}

\* main: normalize_and_save raises after k files are written
NormalizeAndSaveFails ==
    /\ pc = "save"
    /\ faults < MaxFaults
    /\ faults' = faults + 1
    /\ \E k \in FailAfter :
           fs' = normalize_and_save(data, incremental, prev_version_dir,
                                   new_version_dir, fs, k)
    /\ Abort(ckpt_before)
    /\ UNCHANGED <<now, source, backup, runs, val_input, pure>>

\* main: the time passed to save_last_run_timestamp,
\* datetime.datetime.utcnow() after normalize_and_save
checkpoint_time(start, t) == t

\* main: save_last_run_timestamp, then return to run_pipeline.run
SaveCheckpoint ==
    /\ pc = "checkpoint"
    /\ \E io \in Outcomes({"open_fails", "write_fails", "write_truncated"}) :
        /\ checkpoint' = save_last_run_timestamp(checkpoint,
                              checkpoint_time(run_start, now), io)
        /\ faults' = Failed(io)
    /\ outcome' = "ok"
    /\ IF orchestrated
       THEN pc' = "validate" /\ UNCHANGED <<run_locals, history>>
       ELSE pc' = "idle" /\ Forget
    /\ UNCHANGED <<now, source, fs, backup, runs, val_input, pure>>

(***************************************************************************)
(* validation.main and analytics.main, as run_pipeline.run calls them      *)
(***************************************************************************)
\* validation.py: the files under INPUT_DIR = "ETL_Output"
input_files(fsv, rootv) == rootv

\* validation.main: every pd.read_csv succeeds
can_read_input(files) ==
    \A f \in FileSet : f \in DOMAIN files /\ CsvReadable(files[f])

\* what may lie directly in ETL_Output when validation.main runs: no CSV
\* file, or the files of a flat layout
RootFiles == {EmptyFiles, FlatFiles}

\* validation.main reads the five files and validates them
ValidationMain ==
    /\ pc = "validate"
    /\ \E rootv \in RootFiles :
        /\ can_read_input(input_files(fs, rootv))
        /\ val_input' = [f \in FileSet |-> input_files(fs, rootv)[f]]
    /\ pc' = "analytics"
    /\ UNCHANGED <<now, source, checkpoint, fs, backup,
                   run_locals, runs, faults, history, outcome, pure>>

\* validation.main: a pd.read_csv raises, the pipeline ends
ValidationFails ==
    /\ pc = "validate"
    /\ \E rootv \in RootFiles : ~can_read_input(input_files(fs, rootv))
    /\ pc' = "idle"
    /\ outcome' = "failed"
    /\ Forget
    /\ UNCHANGED <<now, source, checkpoint, fs, backup,
                   runs, faults, val_input, pure>>

\* analytics.main, then run prints PIPELINE SUCCESSFUL and returns
AnalyticsMain ==
    /\ pc = "analytics"
    /\ pc' = "idle"
    /\ outcome' = "successful"
    /\ val_input' = EmptyFiles
    /\ Forget
    /\ UNCHANGED <<now, source, checkpoint, fs, backup,
                   runs, faults, pure>>

(***************************************************************************)
(* Spec: runs of the ETL script (python etl_export_transform.py), one      *)
(* after the other, against a source that is written at any time.          *)
(***************************************************************************)
Init == InitEtl /\ orchestrated = FALSE

Next ==
    \/ SourceWrite
    \/ RunStart
    \/ Fetch
    \/ FetchFails
    \/ NormalizeAndSave
    \/ NormalizeAndSaveFails
    \/ SaveCheckpoint

Spec == Init /\ [][Next]_vars

(***************************************************************************)
(* SpecPipeline: runs of run_pipeline.run (ETL, validation, analytics).    *)
(***************************************************************************)
InitPipeline == InitEtl /\ orchestrated = TRUE

NextPipeline ==
    \/ SourceWrite
    \/ RunStart
    \/ Fetch
    \/ FetchFails
    \/ NormalizeAndSave
    \/ NormalizeAndSaveFails
    \/ SaveCheckpoint
    \/ ValidationMain
    \/ ValidationFails
    \/ AnalyticsMain

SpecPipeline == InitPipeline /\ [][NextPipeline]_vars

(***************************************************************************)
(* SpecOrchestrator: runs of run_pipeline.run against a source that is     *)
(* written by the seeding step alone (firestore_setup.main, or nothing     *)
(* with --no-seed) before the first run.                                   *)
(***************************************************************************)
\* the source after step 1 of run: not seeded, or seeded with one document
SeededSources ==
    {EmptySource} \cup
    UNION {{[EmptySource EXCEPT ![c] = SetDoc(@, doc, 1)] : doc \in Docs[c]} :
              c \in DOMAIN Docs}

InitOrchestrator ==
    /\ source \in SeededSources
    /\ now = IF source = EmptySource THEN 0 ELSE 1
    /\ checkpoint = NoFile
    /\ fs \in {EmptyFiles, [n \in {FolderName(1, 0)} |-> StrayFile]}
    /\ backup = EmptyFiles
    /\ pc = "idle"
    /\ last_ts = None
    /\ prev_version_dir = NoDir
    /\ new_version_dir = NoDir
    /\ incremental = FALSE
    /\ data = NoData
    /\ runs = 0
    /\ faults = 0
    /\ run_start = 0
    /\ ckpt_before = NoFile
    /\ outcome = "none"
    /\ val_input = EmptyFiles
    /\ input = <<>>
    /\ output = <<>>
    /\ orchestrated = TRUE

NextOrchestrator ==
    \/ RunStart
    \/ Fetch
    \/ FetchFails
    \/ NormalizeAndSave
    \/ NormalizeAndSaveFails
    \/ SaveCheckpoint
    \/ ValidationMain
    \/ ValidationFails
    \/ AnalyticsMain

SpecOrchestrator == InitOrchestrator /\ [][NextOrchestrator]_vars

(***************************************************************************)
(* SpecSerial: up to MaxSerialRuns runs of the ETL script, one after the   *)
(* other, against a source that holds one document and receives no write.  *)
(***************************************************************************)
\* a recipe document two of whose steps carry the same step_no
RepeatedStepDoc ==
    [id |-> "r1", name |-> "a",
     ingredients |-> <<[ingredient_id |-> "g1", name |-> "a"]>>,
     steps |-> <<[step_no |-> "1", instruction |-> "a"],
                 [step_no |-> "1", instruction |-> "b"]>>]

InitSerial ==
    /\ source \in (SeededSources \ {EmptySource})
                    \cup {[EmptySource EXCEPT !.recipes = SetDoc(@, RepeatedStepDoc, 1)]}
    /\ now = 1
    /\ checkpoint = NoFile
    /\ fs = EmptyFiles
    /\ backup = EmptyFiles
    /\ pc = "idle"
    /\ last_ts = None
    /\ prev_version_dir = NoDir
    /\ new_version_dir = NoDir
    /\ incremental = FALSE
    /\ data = NoData
    /\ runs = 0
    /\ faults = 0
    /\ run_start = 0
    /\ ckpt_before = NoFile
    /\ outcome = "none"
    /\ val_input = EmptyFiles
    /\ input = <<>>
    /\ output = <<>>
    /\ orchestrated = FALSE

SerialRunStart == RunStartWithin(MaxSerialRuns)

NextSerial ==
    \/ SerialRunStart
    \/ Fetch
    \/ FetchFails
    \/ NormalizeAndSave
    \/ NormalizeAndSaveFails
    \/ SaveCheckpoint

SpecSerial == InitSerial /\ [][NextSerial]_vars
(***************************************************************************)
(* Properties of the ETL runs (Spec).                                      *)
(***************************************************************************)
\* the version folder latest() resolves to (NoDir without one)
Latest == CHOOSE d \in get_latest_version_dir(fs) : TRUE

\* the rows of a CSV text
RowsOf(file) == {file[i] : i \in 1..Len(file)}

\* the text of file f in the latest version folder (no rows without it)
LatestFile(f) ==
    IF Latest # NoDir /\ f \in DOMAIN fs[Latest].files THEN fs[Latest].files[f]
    ELSE <<>>

\* the snapshot holds the rows of document doc of collection c as the
\* normalizer writes them
Covered(c, doc) ==
    LET one == [NoData EXCEPT ![c] = <<doc>>]
    IN  \A f \in FileSet :
            RowsOf(to_csv(new_rows(one, f))) \subseteq RowsOf(LatestFile(f))

\* C1: after a successful ETL run every source document whose updated_at is
\* at or before the stored checkpoint is in the latest snapshot with the
\* state it had then.
C1_CheckpointCovered ==
    (pc = "idle" /\ outcome = "ok" /\ checkpoint.fmt = "iso") =>
        \A c \in DOMAIN source : \A x \in source[c] :
            x.updated_at <= checkpoint.t => Covered(c, x.d)

\* C2: a timestamp is written to the checkpoint only by the step that ends a
\* successful run, and it is the time at which that run began.
C2_CheckpointIsRunStart ==
    [][(checkpoint' # checkpoint /\ checkpoint'.fmt = "iso") =>
          (pc = "checkpoint" /\ checkpoint'.t = run_start)]_vars

\* C3: when a run has failed, the checkpoint file is the one the run found.
C3_FailedRunKeepsCheckpoint ==
    (pc = "idle" /\ outcome = "failed") => checkpoint = ckpt_before

\* C3 witness: a run failed after an earlier run had written a checkpoint and
\* the failed run had written part of its snapshot
C3_Witness ==
    /\ pc = "idle" /\ outcome = "failed"
    /\ checkpoint.fmt = "iso"
    /\ \E d \in DOMAIN fs : fs[d].isdir /\ Cardinality(DOMAIN fs[d].files) = 3

\* the folder holds the five entity files
Complete(fsv, d) == d \in DOMAIN fsv /\ FileSet \subseteq DOMAIN fsv[d].files

\* C4: the previous version a run merges against is a folder that holds a
\* complete set of entity files (or none), never a folder a failed run left.
C4_PrevIsComplete ==
    pc # "idle" => (prev_version_dir = NoDir \/ Complete(fs, prev_version_dir))

\* C9: a step changes the files of no folder but the one the current run
\* created, no folder disappears, the folder a run creates is new, and the
\* previous version a run reads is the latest one.
C9_VersionsImmutable ==
    [][/\ \A d \in DOMAIN fs :
             /\ d \in DOMAIN fs'
             /\ fs'[d] # fs[d] => (d = new_version_dir /\ pc = "save")
       /\ (new_version_dir' # new_version_dir /\ new_version_dir' # NoDir) =>
             /\ new_version_dir' \notin DOMAIN fs
             /\ prev_version_dir' \in get_latest_version_dir(fs)
       /\ (pc = "save" /\ fs' # fs) =>
             \A f \in DOMAIN fs'[new_version_dir].files \ DOMAIN fs[new_version_dir].files :
                 fs'[new_version_dir].files[f] =
                     final_csv(data, f, incremental, prev_version_dir, fs)
      ]_vars

\* C9 witness: an incremental run has written its snapshot next to the
\* complete snapshot of the previous version, and the two differ
C9_Witness ==
    /\ pc = "checkpoint" /\ incremental
    /\ Complete(fs, prev_version_dir) /\ Complete(fs, new_version_dir)
    /\ fs[prev_version_dir].files # fs[new_version_dir].files

(***************************************************************************)
(* Properties of the pipeline runs (SpecPipeline).                         *)
(***************************************************************************)
\* C8: when validation has read its input after a successful ETL stage, what
\* it read is the five entity files of the version folder that stage wrote.
C8_ValidatesLatestVersion ==
    pc = "analytics" =>
        val_input = [f \in FileSet |-> fs[new_version_dir].files[f]]

(***************************************************************************)
(* SpecVersions: the version directory manager alone.  The output root     *)
(* starts with any of a set of contents; create_new_version_dir is called  *)
(* again and again while the clock moves.                                  *)
(***************************************************************************)
\* the variables of the pipeline that a specification of single functions
\* leaves at their initial values
AtRest ==
    /\ source = EmptySource
    /\ checkpoint = NoFile
    /\ backup = EmptyFiles
    /\ last_ts = None
    /\ prev_version_dir = NoDir
    /\ new_version_dir = NoDir
    /\ incremental = FALSE
    /\ data = NoData
    /\ faults = 0
    /\ run_start = 0
    /\ ckpt_before = NoFile
    /\ outcome = "none"
    /\ val_input = EmptyFiles
    /\ orchestrated = FALSE

rest == <<source, checkpoint, backup, run_locals, faults, history, outcome,
          val_input, orchestrated>>

\* entries of ETL_Output whose names are not version names: a folder whose
\* prefix is no number, a folder without underscore, the checkpoint file
StrayNames == {Literal("vx_0"), Literal("v9"), Literal("etl_checkpoint.txt")}

\* a folder without files
EmptyDir == [isdir |-> TRUE, files |-> EmptyFiles]

\* the timestamps in the names of the entries that are there before the
\* first call: one before every clock value, one after them all
InitTimes == {0, 9}

\* what the root may hold for one version number before the first call:
\* nothing, a folder with one of the timestamps, or a regular file
EntryChoices == {"none", "dir_0", "dir_9", "file_0"}

\* the root for a choice per version number, with or without the stray
\* entries.  No two entries carry the same number: create_new_version_dir
\* numbers every folder above all that exist.
RootOf(choice, strays) ==
    LET names == {FolderName(n, IF choice[n] = "dir_9" THEN 9 ELSE 0) :
                     n \in {m \in DOMAIN choice : choice[m] # "none"}}
    IN  [d \in names \cup (IF strays THEN StrayNames ELSE {}) |->
            IF d \in StrayNames
            THEN (IF d = Literal("etl_checkpoint.txt") THEN StrayFile ELSE EmptyDir)
            ELSE IF choice[d.num] = "file_0" THEN StrayFile ELSE EmptyDir]

\* the contents ETL_Output may have before the first call
Roots ==
    {RootOf(choice, strays) :
        choice \in [1..MaxVersionNum -> EntryChoices], strays \in BOOLEAN}

InitVersions ==
    /\ AtRest
    /\ now = 0
    /\ runs = 0
    /\ pc = "idle"
    /\ fs \in Roots
    /\ input = fs
    /\ output = <<>>

\* the clock moves
Tick ==
    /\ now < MaxWrites
    /\ now' = now + 1
    /\ UNCHANGED <<fs, pc, runs, input, output, rest>>

\* create_new_version_dir returns: output collects the returned
\* (new_version_path, new_version_number)
CreateNext ==
    /\ runs < MaxCalls
    /\ ~create_collides(fs, now)
    /\ runs' = runs + 1
    /\ fs' = create_new_version_dir(fs, now)
    /\ output' = Append(output, new_version_name(fs, now))
    /\ UNCHANGED <<now, pc, input, rest>>

\* create_new_version_dir raises FileExistsError
CreateCollides ==
    /\ runs < MaxCalls
    /\ create_collides(fs, now)
    /\ runs' = runs + 1
    /\ UNCHANGED <<now, fs, pc, input, output, rest>>

\* main: prev_version_dir = get_latest_version_dir()
GetLatest ==
    /\ \E p \in get_latest_version_dir(fs) : prev_version_dir' = p
    /\ UNCHANGED <<now, fs, pc, runs, input, output, source, checkpoint, backup,
                   last_ts, new_version_dir, incremental, data, faults, history,
                   outcome, val_input, orchestrated>>

NextVersions ==
    \/ Tick
    \/ CreateNext
    \/ CreateCollides
    \/ GetLatest

SpecVersions == InitVersions /\ [][NextVersions]_vars

\* the numbers _list_version_dirs reports for a root
Numbers(fsv) == {v.num : v \in list_version_dirs(fsv)}

\* C10: every number create_new_version_dir assigns is above every number
\* that existed and is 1 or the successor of one that existed (the maximum
\* plus one, also over gaps); k calls on a root without versions give
\* 1, ..., k in order, and the latest version is then the k-th folder.
C10_VersionMonotonic ==
    /\ \A i \in 1..Len(output) :
          LET before == Numbers(input) \cup {output[j].num : j \in 1..(i - 1)}
          IN  /\ \A m \in before : m < output[i].num
              /\ output[i].num = 1 \/ (output[i].num - 1) \in before
    /\ (Numbers(input) = {} /\ output # <<>>) =>
          /\ \A i \in 1..Len(output) : output[i].num = i
          /\ get_latest_version_dir(fs) = {output[Len(output)]}

\* C10 witness: three folders were created in a root that held versions 1
\* and 3 but not 2
C10_Witness ==
    /\ Numbers(input) = {1, 3}
    /\ Len(output) = 3

\* the folders of a root whose name is v<integer>_<anything>
VersionFolders(fsv) == {d \in DOMAIN fsv : fsv[d].isdir /\ d.base = "v"}

\* p is what latest() has to return for the root: none without a version
\* folder, else the version folder whose number no other exceeds
IsLatest(p, fsv) ==
    IF VersionFolders(fsv) = {} THEN p = NoDir
    ELSE /\ p \in VersionFolders(fsv)
         /\ \A d \in VersionFolders(fsv) : d.num <= p.num

\* C11: get_latest_version_dir returns none when the root holds no version
\* folder and otherwise the one folder with the highest number, whatever the
\* timestamps in the names; regular files and entries with other names are
\* never returned and do not change the result.
C11_LatestIsMaxNumber ==
    [][/\ \A p \in get_latest_version_dir(fs) : IsLatest(p, fs)
       /\ Cardinality(get_latest_version_dir(fs)) = 1
       /\ prev_version_dir' # prev_version_dir => IsLatest(prev_version_dir', fs)
      ]_vars

\* C11 witness: latest() has returned a folder whose timestamp is older than
\* that of a folder with a lower number, in a root that also holds a regular
\* file with a higher number and the stray entries
C11_Witness ==
    /\ prev_version_dir # NoDir
    /\ StrayNames \subseteq DOMAIN fs
    /\ \E d \in VersionFolders(fs) : d.num < prev_version_dir.num /\ d.ts > prev_version_dir.ts
    /\ \E d \in DOMAIN fs : ~fs[d].isdir /\ d.base = "v" /\ d.num > prev_version_dir.num

(***************************************************************************)
(* SpecMerge: merge_with_existing alone, on one entity file.  A full run   *)
(* writes a first snapshot, an incremental run merges new rows into it,    *)
(* and further incremental runs find nothing new.                          *)
(***************************************************************************)
\* the files the merge is exercised on
MergeFiles == {"recipe.csv", "steps.csv"}

\* rows the normalizer builds for a file: recipe_id is str(...) of the
\* document's field, step_no is int(...)
RowsFor(filename) ==
    IF filename = "recipe.csv"
    THEN {[recipe_id |-> Str(r), name |-> Str(n)] : r \in {"r1", "1"}, n \in Names}
    ELSE {[recipe_id |-> Str("r1"), step_no |-> Num(k), instruction |-> Str(n)] :
              k \in {"1", "2"}, n \in Names}

\* pd.DataFrame(rows) for up to MaxRows rows
Frames(filename) == UNION {[1..n -> RowsFor(filename)] : n \in 0..MaxRows}

InitMerge ==
    /\ AtRest
    /\ now = 0
    /\ runs = 0
    /\ pc = "idle"
    /\ fs = EmptyFiles
    /\ \E f \in MergeFiles : \E prior \in Frames(f) : \E new \in Frames(f) :
          input = [filename |-> f, prior |-> prior, new |-> new]
    /\ output = <<>>

\* df.to_csv(os.path.join(dir, filename), index=False) into a new folder
write_csv(fsv, dir, filename, df) ==
    [name \in DOMAIN fsv \cup {dir} |->
        IF name = dir
        THEN [isdir |-> TRUE, files |-> [f \in {filename} |-> to_csv(df)]]
        ELSE fsv[name]]

\* one run's merge and write of the file: the rows returned and the root
MergeRun(df_new, incr) ==
    LET prev == CHOOSE d \in get_latest_version_dir(fs) : TRUE
        df == merge_with_existing(df_new, prev, input.filename,
                                  key_columns(input.filename), incr, fs)
    IN  /\ output' = df
        /\ fs' = write_csv(fs, new_version_name(fs, now), input.filename, df)
        /\ runs' = runs + 1

\* a full run (incremental = False) writes the first snapshot
WriteFull ==
    /\ pc = "idle"
    /\ MergeRun(input.prior, FALSE)
    /\ pc' = "written"
    /\ UNCHANGED <<now, input, rest>>

\* an incremental run merges the new rows into the first snapshot
MergeIncremental ==
    /\ pc = "written"
    /\ MergeRun(input.new, TRUE)
    /\ pc' = "merged"
    /\ UNCHANGED <<now, input, rest>>

\* an incremental run with zero new rows
MergeNothing ==
    /\ pc \in {"merged", "again"}
    /\ runs < MaxRuns + 1
    /\ MergeRun(<<>>, TRUE)
    /\ pc' = "again"
    /\ UNCHANGED <<now, input, rest>>

\* the ways a call takes the path that returns df_new: incremental is
\* False, prev_dir is None, or prev_dir holds no file of that name
FullPathCases == {"not_incremental", "no_prev_dir", "no_prior_file"}

\* merge_with_existing is called on the new rows in one of these ways, next
\* to the first snapshot; outcome records the way
MergeFullPath ==
    /\ pc = "written"
    /\ \E case \in FullPathCases :
          /\ outcome' = case
          /\ output' = merge_with_existing(
                  input.new,
                  IF case = "no_prev_dir" THEN NoDir
                  ELSE CHOOSE d \in get_latest_version_dir(fs) : TRUE,
                  IF case = "no_prior_file" THEN "users.csv" ELSE input.filename,
                  key_columns(input.filename),
                  case # "not_incremental",
                  fs)
    /\ pc' = "full_path"
    /\ UNCHANGED <<now, fs, runs, input, source, checkpoint, backup, run_locals,
                   faults, history, val_input, orchestrated>>

\* merge_with_existing is called on the new rows, incremental and next to
\* the first snapshot, with no key columns
MergeNoKeys ==
    /\ pc = "written"
    /\ output' = merge_with_existing(
            input.new, CHOOSE d \in get_latest_version_dir(fs) : TRUE,
            input.filename, {}, TRUE, fs)
    /\ pc' = "no_keys"
    /\ UNCHANGED <<now, fs, runs, input, rest>>

NextMerge ==
    \/ WriteFull
    \/ MergeIncremental
    \/ MergeNothing
    \/ MergeFullPath
    \/ MergeNoKeys

SpecMerge == InitMerge /\ [][NextMerge]_vars

\* the entity file of version n
VersionFile(n) == fs[FolderName(n, 0)].files[input.filename]

\* the keys of the rows of a CSV text or of a frame
Keys(rows, cols) == {KeyOf(rows[i], cols) : i \in 1..Len(rows)}

\* the last row with key k
LastWith(rows, cols, k) ==
    rows[CHOOSE i \in 1..Len(rows) :
            /\ KeyOf(rows[i], cols) = k
            /\ \A j \in (i + 1)..Len(rows) : KeyOf(rows[j], cols) # k]

\* C5: after an incremental merge against a readable prior file, the file
\* written holds exactly one row for every key of the prior file or of the
\* new rows and no other row: the last new row for a key that has new rows,
\* the prior row otherwise.
C5_LastWriteWins ==
    (pc = "merged" /\ CsvReadable(VersionFile(1))) =>
        LET cols == key_columns(input.filename)
            prior == VersionFile(1)
            new == to_csv(input.new)
            out == VersionFile(2)
        IN  /\ Keys(out, cols) = Keys(prior, cols) \cup Keys(new, cols)
            /\ \A k \in Keys(out, cols) :
                  /\ Cardinality({i \in 1..Len(out) : KeyOf(out[i], cols) = k}) = 1
                  /\ LastWith(out, cols, k) =
                        IF k \in Keys(new, cols) THEN LastWith(new, cols, k)
                        ELSE LastWith(prior, cols, k)

\* C6: an incremental run that found zero new rows writes the rows of the
\* previous snapshot: the same set of rows, none added, none lost.
C6_IdempotentMerge ==
    ((pc = "merged" /\ input.new = <<>>) \/ pc = "again") =>
        RowsOf(VersionFile(runs)) = RowsOf(VersionFile(runs - 1))

\* C16: called with incremental false, without previous folder, or with a
\* previous folder that lacks the file, merge_with_existing returns the new
\* rows as they are: the same rows in the same order.
C16_FullPathReturnsNew ==
    pc = "full_path" => output = input.new

\* C16 witness: the call was not incremental, the new rows hold one key
\* twice, and the previous folder holds a readable file with that key
C16_Witness ==
    /\ pc = "full_path" /\ outcome = "not_incremental"
    /\ Len(input.new) = 2
    /\ Cardinality(Keys(input.new, key_columns(input.filename))) = 1
    /\ CsvReadable(VersionFile(1))
    /\ Keys(read_csv(VersionFile(1)), key_columns(input.filename))
           \cap Keys(input.new, key_columns(input.filename)) # {}

\* C27: an incremental merge with no key columns drops nothing: the result
\* is the rows of the previous file followed by the new rows, duplicates
\* included, as many as both together.
C27_NoKeysNoDedup ==
    pc = "no_keys" =>
        /\ output = read_csv(VersionFile(1)) \o input.new
        /\ Len(output) = Len(input.prior) + Len(input.new)

\* C27 witness: the new rows are one row twice, which the previous file
\* holds as well
C27_Witness ==
    /\ pc = "no_keys"
    /\ Len(input.new) = 2 /\ input.new[1] = input.new[2]
    /\ \E i \in 1..Len(VersionFile(1)) : read_csv(VersionFile(1))[i] = input.new[1]
    /\ Len(output) = Len(input.prior) + 2

(***************************************************************************)
(* SpecValidate: the validators of validation.py alone, each on a frame    *)
(* read from a CSV file.                                                   *)
(***************************************************************************)
VALID_DIFFICULTIES == {"Easy", "Medium", "Hard"}
VALID_TYPES == {"view", "like", "cook_attempt", "rating"}

\* the number a numeric text stands for
ToInt(text) ==
    CASE text = "-5" -> -5
      [] text = "-1" -> -1
      [] text = "0" -> 0
      [] text = "1" -> 1
      [] text = "2" -> 2
      [] text = "4" -> 4
      [] text = "5" -> 5
      [] text = "6" -> 6
      [] text = "7" -> 7
      [] OTHER -> 10

\* row.get(c) of a row without column c
NoneCell == [t |-> "none", v |-> "None"]
\* row.get(c)
get(row, c) == IF c \in DOMAIN row THEN row[c] ELSE NoneCell

\* pd.isna(value)
isna(cell) == cell.t \in {"nan", "none"}
\* str(value).strip() == ""
blank(cell) == cell.t = "str" /\ cell.v \in {"", " "}
\* value < n, value <= n, value > n for a number
less(cell, n) == cell.t = "num" /\ ToInt(cell.v) < n
at_most(cell, n) == cell.t = "num" /\ ToInt(cell.v) <= n
greater(cell, n) == cell.t = "num" /\ ToInt(cell.v) > n
\* str(value) of a cell
str(cell) == IF cell.t = "nan" THEN "nan" ELSE cell.v

\* an error string: a fixed text, or a text followed by a formatted value
Plain(text) == [text |-> text, value |-> <<>>]
Formatted(text, cell) == [text |-> text, value |-> <<cell>>]

\* one "if <condition>: errors.append(msg); is_valid = False" of a validator
Rule(fails, msg) == [fails |-> fails, msg |-> msg]

\* errors = []; is_valid = True
NoErrors == [is_valid |-> TRUE, errors |-> <<>>]

RECURSIVE apply_rules_keeps_flag(_, _)
RECURSIVE apply_rules_first_error(_, _)
RECURSIVE apply_rules(_, _)
\* a mutation of apply_rules: a failing rule appends its error and leaves
\* is_valid as it is
apply_rules_keeps_flag(rules, acc) ==
    IF rules = <<>> THEN acc
    ELSE apply_rules_keeps_flag(
            Tail(rules),
            IF Head(rules).fails
            THEN [is_valid |-> acc.is_valid,
                  errors |-> Append(acc.errors, Head(rules).msg)]
            ELSE acc)

\* a mutation of apply_rules: the rules after the first failing one are
\* not evaluated
apply_rules_first_error(rules, acc) ==
    IF rules = <<>> THEN acc
    ELSE IF Head(rules).fails
         THEN [is_valid |-> FALSE, errors |-> Append(acc.errors, Head(rules).msg)]
         ELSE apply_rules_first_error(Tail(rules), acc)

\* the body of "for idx, row in df.iterrows()": the if statements in
\* order, each appending its error and clearing is_valid when it fails
apply_rules(rules, acc) ==
    IF rules = <<>> THEN acc
    ELSE apply_rules(
            Tail(rules),
            IF Head(rules).fails
            THEN [is_valid |-> FALSE, errors |-> Append(acc.errors, Head(rules).msg)]
            ELSE acc)

\* a mutation of recipe_rules: a time of 0 fails and servings of 0 pass
recipe_rules_shifted(row) ==
    << Rule(isna(get(row, "name")) \/ blank(get(row, "name")),
            Plain("Missing or empty recipe name")),
       Rule(isna(get(row, "description")), Plain("Missing recipe description")),
       Rule(isna(get(row, "prep_time_minutes")) \/ at_most(get(row, "prep_time_minutes"), 0),
            Plain("prep_time_minutes must be non-negative")),
       Rule(isna(get(row, "cook_time_minutes")) \/ at_most(get(row, "cook_time_minutes"), 0),
            Plain("cook_time_minutes must be non-negative")),
       Rule(isna(get(row, "servings")) \/ less(get(row, "servings"), 0),
            Plain("servings must be positive")),
       Rule(str(get(row, "difficulty")) \notin VALID_DIFFICULTIES,
            Formatted("Invalid difficulty value: ", get(row, "difficulty"))) >>

\* validate_recipes: the if statements of one row
recipe_rules(row) ==
    << Rule(isna(get(row, "name")) \/ blank(get(row, "name")),
            Plain("Missing or empty recipe name")),
       Rule(isna(get(row, "description")), Plain("Missing recipe description")),
       Rule(isna(get(row, "prep_time_minutes")) \/ less(get(row, "prep_time_minutes"), 0),
            Plain("prep_time_minutes must be non-negative")),
       Rule(isna(get(row, "cook_time_minutes")) \/ less(get(row, "cook_time_minutes"), 0),
            Plain("cook_time_minutes must be non-negative")),
       Rule(isna(get(row, "servings")) \/ at_most(get(row, "servings"), 0),
            Plain("servings must be positive")),
       Rule(str(get(row, "difficulty")) \notin VALID_DIFFICULTIES,
            Formatted("Invalid difficulty value: ", get(row, "difficulty"))) >>

\* validate_users: the if statements of one row (row["user_id"], row["name"])
user_rules(row) ==
    << Rule(isna(row.user_id) \/ blank(row.user_id), Plain("Missing user_id")),
       Rule(isna(row.name) \/ blank(row.name), Plain("Missing user name")) >>

\* validate_ingredients: the if statements of one row
ingredient_rules(row) ==
    << Rule(isna(get(row, "recipe_id")), Plain("Missing recipe_id link")),
       Rule(isna(get(row, "name")) \/ blank(get(row, "name")),
            Plain("Missing ingredient name")),
       Rule(isna(get(row, "quantity")) \/ at_most(get(row, "quantity"), 0),
            Plain("Quantity must be positive")) >>

\* validate_steps: the if statements of one row
steps_rules(row) ==
    << Rule(isna(get(row, "recipe_id")), Plain("Missing recipe_id link")),
       Rule(isna(get(row, "instruction")) \/ blank(get(row, "instruction")),
            Plain("Missing step instruction")),
       Rule(isna(get(row, "step_no")) \/ at_most(get(row, "step_no"), 0),
            Plain("step_no must be positive")),
       Rule(isna(get(row, "duration_minutes")) \/ less(get(row, "duration_minutes"), 0),
            Plain("duration_minutes must be non-negative")) >>

\* a mutation of interaction_rules: the rating is looked at whatever the
\* type is
interaction_rules_any_type(row) ==
    << Rule(isna(get(row, "user_id")), Plain("Missing user_id link")),
       Rule(isna(get(row, "recipe_id")), Plain("Missing recipe_id link")),
       Rule(str(get(row, "type")) \notin VALID_TYPES,
            Formatted("Invalid interaction type: ", get(row, "type"))),
       Rule(\/ isna(get(row, "rating"))
            \/ less(get(row, "rating"), 1)
            \/ greater(get(row, "rating"), 5),
            Formatted("Rating out of bounds or missing for rating type: ",
                      get(row, "rating"))),
       Rule(isna(get(row, "timestamp")), Plain("Missing timestamp")) >>

\* validate_interactions: the if statements of one row; the rating is
\* looked at only when row.get("type") == "rating"
interaction_rules(row) ==
    << Rule(isna(get(row, "user_id")), Plain("Missing user_id link")),
       Rule(isna(get(row, "recipe_id")), Plain("Missing recipe_id link")),
       Rule(str(get(row, "type")) \notin VALID_TYPES,
            Formatted("Invalid interaction type: ", get(row, "type"))),
       Rule(/\ get(row, "type") = Str("rating")
            /\ \/ isna(get(row, "rating"))
               \/ less(get(row, "rating"), 1)
               \/ greater(get(row, "rating"), 5),
            Formatted("Rating out of bounds or missing for rating type: ",
                      get(row, "rating"))),
       Rule(isna(get(row, "timestamp")), Plain("Missing timestamp")) >>

\* the record appended to report for row i of df
record(df, i, key, rules) ==
    LET result == apply_rules(rules, NoErrors)
    IN  [key |-> KeyOf(df[i], key),
         is_valid |-> result.is_valid,
         errors |-> result.errors]

\* the indices of the rows appended to quarantine_rows
quarantine_rows(report) == {i \in 1..Len(report) : ~report[i].is_valid}

\* df[~df[key].isin(quarantine_df.get(key, []))]
clean_by_key(df, quarantined, key) ==
    SelectIdx(df, {i \in 1..Len(df) :
                      df[i][key] \notin {df[j][key] : j \in quarantined}}, 1)

\* quarantine_df.to_csv(...); clean_df.to_csv(...): the two files a
\* validator writes under VALIDATION_DIR
written(quarantine, clean) ==
    [quarantined |-> to_csv(quarantine), clean |-> to_csv(clean)]

\* validate_recipes: report, clean_df and quarantine_df
validate_recipes(df) ==
    LET report == [i \in 1..Len(df) |->
                      record(df, i, {"recipe_id"}, recipe_rules(df[i]))]
    IN  [report |-> report,
         quarantine |-> SelectIdx(df, quarantine_rows(report), 1),
         clean |-> clean_by_key(df, quarantine_rows(report), "recipe_id"),
         files |-> written(SelectIdx(df, quarantine_rows(report), 1),
                           clean_by_key(df, quarantine_rows(report), "recipe_id"))]

\* a mutation of validate_users: a frame without user_id column is taken
\* as clean
validate_users_keeps_rows(df) ==
    IF "user_id" \notin Columns(df)
    THEN [report |-> <<>>, quarantine |-> <<>>, clean |-> df,
          files |-> written(<<>>, df)]
    ELSE LET report == [i \in 1..Len(df) |->
                           record(df, i, {"user_id"}, user_rules(df[i]))]
         IN  [report |-> report,
              quarantine |-> SelectIdx(df, quarantine_rows(report), 1),
              clean |-> clean_by_key(df, quarantine_rows(report), "user_id"),
              files |-> written(SelectIdx(df, quarantine_rows(report), 1),
                                clean_by_key(df, quarantine_rows(report), "user_id"))]

\* validate_users: a frame without user_id column is quarantined whole,
\* gets an empty report and an empty clean file (pd.DataFrame().to_csv)
validate_users(df) ==
    IF "user_id" \notin Columns(df)
    THEN [report |-> <<>>, quarantine |-> df, clean |-> <<>>,
          files |-> written(df, <<>>)]
    ELSE LET report == [i \in 1..Len(df) |->
                           record(df, i, {"user_id"}, user_rules(df[i]))]
         IN  [report |-> report,
              quarantine |-> SelectIdx(df, quarantine_rows(report), 1),
              clean |-> clean_by_key(df, quarantine_rows(report), "user_id"),
              files |-> written(SelectIdx(df, quarantine_rows(report), 1),
                                clean_by_key(df, quarantine_rows(report), "user_id"))]

\* validate_ingredients: report, clean_df and quarantine_df
validate_ingredients(df) ==
    LET report == [i \in 1..Len(df) |->
                      record(df, i, {"ingredient_id"}, ingredient_rules(df[i]))]
    IN  [report |-> report,
         quarantine |-> SelectIdx(df, quarantine_rows(report), 1),
         clean |-> clean_by_key(df, quarantine_rows(report), "ingredient_id"),
         files |-> written(SelectIdx(df, quarantine_rows(report), 1),
                           clean_by_key(df, quarantine_rows(report), "ingredient_id"))]

\* validate_steps: report, clean_df and quarantine_df.  The clean frame is
\* df[~df.index.isin(quarantine_indices)]
validate_steps(df) ==
    LET report == [i \in 1..Len(df) |->
                      record(df, i, {"recipe_id", "step_no"}, steps_rules(df[i]))]
    IN  [report |-> report,
         quarantine |-> SelectIdx(df, quarantine_rows(report), 1),
         clean |-> SelectIdx(df, (1..Len(df)) \ quarantine_rows(report), 1),
         files |-> written(SelectIdx(df, quarantine_rows(report), 1),
                           SelectIdx(df, (1..Len(df)) \ quarantine_rows(report), 1))]

\* validate_interactions: report, clean_df and quarantine_df
validate_interactions(df) ==
    LET report == [i \in 1..Len(df) |->
                      record(df, i, {"interaction_id"}, interaction_rules(df[i]))]
    IN  [report |-> report,
         quarantine |-> SelectIdx(df, quarantine_rows(report), 1),
         clean |-> clean_by_key(df, quarantine_rows(report), "interaction_id"),
         files |-> written(SelectIdx(df, quarantine_rows(report), 1),
                           clean_by_key(df, quarantine_rows(report), "interaction_id"))]

\* the rows a recipe.csv and a steps.csv under INPUT_DIR may hold
RecipeTexts ==
    {[recipe_id |-> r, name |-> n, description |-> "d", prep_time_minutes |-> "1",
      cook_time_minutes |-> "1", servings |-> sv, difficulty |-> "Easy"] :
        r \in {"r1", "r2"}, n \in {"a", ""}, sv \in {"1", "0"}}
StepsTexts ==
    {[recipe_id |-> r, step_no |-> k, instruction |-> n, duration_minutes |-> d] :
        r \in {"r1", ""}, k \in {"1", "0"}, n \in {"a", ""}, d \in {"1", "-1"}}
\* the rows of a users.csv, with and without the user_id column
UsersTexts ==
    {[user_id |-> u, name |-> n] : u \in {"u1", "", " "}, n \in {"a", "", " "}}
UsersTextsNoId == {[name |-> n] : n \in {"a", "", " "}}
IngredientsTexts ==
    {[ingredient_id |-> i, recipe_id |-> r, name |-> n, quantity |-> q] :
        i \in {"i1", "i2"}, r \in {"r1", ""}, n \in {"a", ""}, q \in {"1", "0"}}
\* the mark of a column the file does not have
Absent == "<absent>"
\* the row without the columns marked absent
Without(row) == [c \in {c \in DOMAIN row : row[c] # Absent} |-> row[c]]
\* interaction rows over every kind of value of every validated column, a
\* column being absent from the file included
InteractionsTexts ==
    {Without([interaction_id |-> "x1", user_id |-> u, recipe_id |-> r, type |-> ty,
              rating |-> ra, timestamp |-> ts]) :
        u \in {"u1", "", Absent}, r \in {"r1", "", Absent},
        ty \in {"view", "like", "cook_attempt", "rating", "share", "", Absent},
        ra \in {"", "0", "1", "4", "5", "6", "7", Absent},
        ts \in {"t", "", Absent}}

\* recipe rows over every kind of value of every validated column, a
\* column being absent from the file included
RecipeCases ==
    {Without([recipe_id |-> "r1", name |-> n, description |-> ds,
              prep_time_minutes |-> p, cook_time_minutes |-> c, servings |-> sv,
              difficulty |-> df]) :
        n \in {"Soup", "", " ", Absent}, ds \in {"x", "", Absent},
        p \in {"10", "0", "-5", "", Absent}, c \in {"10", "0", "-5", "", Absent},
        sv \in {"2", "0", "-1", "", Absent},
        df \in {"Easy", "Medium", "Hard", "Expert", "", Absent}}

\* CSV files of one to MaxRows rows
Files(rows) == UNION {[1..n -> rows] : n \in 1..MaxRows}
\* CSV files of one row
OneRow(rows) == {<<row>> : row \in rows}

\* the names of the five CSV files main reads, without ".csv"
Entities == {"recipe", "users", "ingredients", "steps", "interactions"}

\* the files of INPUT_DIR an input may be
EntityFilesIn(entity) ==
    CASE entity = "recipe" -> Files(RecipeTexts) \cup OneRow(RecipeCases)
      [] entity = "users" -> Files(UsersTexts) \cup Files(UsersTextsNoId)
      [] entity = "ingredients" -> Files(IngredientsTexts)
      [] entity = "steps" -> Files(StepsTexts)
      [] OTHER -> OneRow(InteractionsTexts)

\* a file of one valid row of an entity
DefaultFile(entity) ==
    CASE entity = "recipe" ->
            <<[recipe_id |-> "r1", name |-> "a", description |-> "d",
               prep_time_minutes |-> "1", cook_time_minutes |-> "1",
               servings |-> "1", difficulty |-> "Easy"]>>
      [] entity = "users" -> <<[user_id |-> "u1", name |-> "a"]>>
      [] entity = "ingredients" ->
            <<[ingredient_id |-> "i1", recipe_id |-> "r1", name |-> "a",
               quantity |-> "1"]>>
      [] entity = "steps" ->
            <<[recipe_id |-> "r1", step_no |-> "1", instruction |-> "a",
               duration_minutes |-> "1"]>>
      [] OTHER ->
            <<[interaction_id |-> "x1", user_id |-> "u1", recipe_id |-> "r1",
               type |-> "view", rating |-> "", timestamp |-> "t"]>>

\* main: the five frames read from INPUT_DIR; the input names the file of
\* one entity, the four others hold one valid row
frames(inp) ==
    [e \in Entities |->
        read_csv(IF e = inp.entity THEN inp.file ELSE DefaultFile(e))]

InitValidate ==
    /\ AtRest
    /\ now = 0
    /\ runs = 0
    /\ pc = "validate"
    /\ fs = EmptyFiles
    /\ \E entity \in Entities : \E file \in EntityFilesIn(entity) :
          input = [entity |-> entity, file |-> file]
    /\ output = <<>>

\* validation.main: recipe_df = pd.read_csv(...); validate_recipes(recipe_df)
ValidateRecipes ==
    /\ pc = "validate"
    /\ input.entity = "recipe"
    /\ output' = validate_recipes(read_csv(input.file))
    /\ pc' = "validated"
    /\ UNCHANGED <<now, fs, runs, input, rest>>

\* validation.main: users_df = pd.read_csv(...); validate_users(users_df)
ValidateUsers ==
    /\ pc = "validate"
    /\ input.entity = "users"
    /\ output' = validate_users(read_csv(input.file))
    /\ pc' = "validated"
    /\ UNCHANGED <<now, fs, runs, input, rest>>

\* validation.main: ingredients_df = pd.read_csv(...); validate_ingredients
ValidateIngredients ==
    /\ pc = "validate"
    /\ input.entity = "ingredients"
    /\ output' = validate_ingredients(read_csv(input.file))
    /\ pc' = "validated"
    /\ UNCHANGED <<now, fs, runs, input, rest>>

\* validation.main: steps_df = pd.read_csv(...); validate_steps(steps_df)
ValidateSteps ==
    /\ pc = "validate"
    /\ input.entity = "steps"
    /\ output' = validate_steps(read_csv(input.file))
    /\ pc' = "validated"
    /\ UNCHANGED <<now, fs, runs, input, rest>>

\* validation.main: interactions_df = pd.read_csv(...); validate_interactions
ValidateInteractions ==
    /\ pc = "validate"
    /\ input.entity = "interactions"
    /\ output' = validate_interactions(read_csv(input.file))
    /\ pc' = "validated"
    /\ UNCHANGED <<now, fs, runs, input, rest>>

\* validation.main as a whole: the five validators run on the five frames
\* and report_data, keyed by entity type, is what the report file holds
WriteReport ==
    /\ pc = "validate"
    /\ output' = [recipes |-> validate_recipes(frames(input)["recipe"]).report,
                  users |-> validate_users(frames(input)["users"]).report,
                  ingredients |-> validate_ingredients(frames(input)["ingredients"]).report,
                  steps |-> validate_steps(frames(input)["steps"]).report,
                  interactions |-> validate_interactions(frames(input)["interactions"]).report]
    /\ pc' = "reported"
    /\ UNCHANGED <<now, fs, runs, input, rest>>

NextValidate ==
    \/ ValidateRecipes
    \/ ValidateUsers
    \/ ValidateIngredients
    \/ ValidateSteps
    \/ ValidateInteractions
    \/ WriteReport

SpecValidate == InitValidate /\ [][NextValidate]_vars

\* the number of rows of a frame that equal row
Count(df, row) == Cardinality({i \in 1..Len(df) : df[i] = row})

\* C7: after validation the clean and the quarantine partition together
\* hold every input row exactly once, the rows without errors in clean, the
\* rows with errors in quarantine, and no key is in both.
C7_PartitionComplete ==
    (pc = "validated" /\ input.entity \in {"recipe", "steps"}) =>
        LET df == read_csv(input.file)
            cols == IF input.entity = "recipe" THEN {"recipe_id"}
                    ELSE {"recipe_id", "step_no"}
            valid(i) == output.report[i].errors = <<>>
        IN  /\ Len(output.clean) + Len(output.quarantine) = Len(df)
            /\ \A i \in 1..Len(df) :
                  /\ Count(output.clean, df[i]) + Count(output.quarantine, df[i])
                        = Count(df, df[i])
                  /\ valid(i) => Count(output.quarantine, df[i]) = 0
                  /\ ~valid(i) => Count(output.clean, df[i]) = 0
            /\ Keys(output.clean, cols) \cap Keys(output.quarantine, cols) = {}

\* C17: for every row of every entity, the record's is_valid is true if and
\* only if its errors list is empty.
C17_ValidIffNoErrors ==
    pc = "validated" =>
        \A i \in 1..Len(output.report) :
            output.report[i].is_valid <=> output.report[i].errors = <<>>

\* C17 witness: an interaction of type rating whose rating is out of bounds
\* was validated and is invalid with that error alone
C17_Witness ==
    /\ pc = "validated" /\ input.entity = "interactions"
    /\ "type" \in DOMAIN input.file[1] /\ input.file[1].type = "rating"
    /\ "rating" \in DOMAIN input.file[1] /\ input.file[1].rating = "6"
    /\ ~output.report[1].is_valid
    /\ Len(output.report[1].errors) = 1

\* the if statements of the validator of an entity, for one row
rules_of(entity, row) ==
    CASE entity = "recipe" -> recipe_rules(row)
      [] entity = "users" -> user_rules(row)
      [] entity = "ingredients" -> ingredient_rules(row)
      [] entity = "steps" -> steps_rules(row)
      [] OTHER -> interaction_rules(row)

\* the messages of the rules whose failure condition holds, in rule order
FailingMessages(rules) ==
    LET failing == SelectSeq(rules, LAMBDA r : r.fails)
    IN  [j \in 1..Len(failing) |-> failing[j].msg]

\* C19: the errors of a row are the messages of exactly the rules whose
\* failure condition holds for it, one each, in rule order: a row failing
\* k rules has k errors.
C19_NoShortCircuit ==
    pc = "validated" =>
        \A i \in 1..Len(output.report) :
            LET rules == rules_of(input.entity, read_csv(input.file)[i])
            IN  /\ output.report[i].errors = FailingMessages(rules)
                /\ Len(output.report[i].errors)
                      = Cardinality({j \in 1..Len(rules) : rules[j].fails})

\* C19 witness: a step failing each of the four step rules was validated
\* and has four errors
C19_Witness ==
    /\ pc = "validated" /\ input.entity = "steps"
    /\ \E i \in 1..Len(output.report) : Len(output.report[i].errors) = 4

\* errors.append(msg) when cond holds
ErrorIf(cond, msg) == IF cond THEN <<msg>> ELSE <<>>

\* the errors the rule table gives a recipe row of a file: the text of a
\* column is missing (no such column), null (a text read as NaN) or a value
TableErrors(row) ==
    LET missing(c) == c \notin DOMAIN row
        null(c) == row[c] \in NaTexts
        absent(c) == missing(c) \/ null(c)
    IN  ErrorIf(absent("name") \/ row.name \in {"", " "},
                Plain("Missing or empty recipe name"))
        \o ErrorIf(absent("description"), Plain("Missing recipe description"))
        \o ErrorIf(absent("prep_time_minutes") \/ ToInt(row.prep_time_minutes) < 0,
                   Plain("prep_time_minutes must be non-negative"))
        \o ErrorIf(absent("cook_time_minutes") \/ ToInt(row.cook_time_minutes) < 0,
                   Plain("cook_time_minutes must be non-negative"))
        \o ErrorIf(absent("servings") \/ ToInt(row.servings) <= 0,
                   Plain("servings must be positive"))
        \o ErrorIf(absent("difficulty") \/ row.difficulty \notin {"Easy", "Medium", "Hard"},
                   Formatted("Invalid difficulty value: ",
                             get(read_csv(<<row>>)[1], "difficulty")))

\* the recipe {name: "Soup", description: "x", prep_time_minutes: -5,
\* cook_time_minutes: 10, servings: 2, difficulty: "Easy"}
SoupFile ==
    <<[recipe_id |-> "r1", name |-> "Soup", description |-> "x",
       prep_time_minutes |-> "-5", cook_time_minutes |-> "10", servings |-> "2",
       difficulty |-> "Easy"]>>

Texts(errors) == [j \in 1..Len(errors) |-> errors[j].text]

\* the errors the rule table gives an interaction row of a file, as texts
InteractionTableErrors(row) ==
    LET absent(c) == c \notin DOMAIN row \/ row[c] \in NaTexts
    IN  ErrorIf(absent("user_id"), "Missing user_id link")
        \o ErrorIf(absent("recipe_id"), "Missing recipe_id link")
        \o ErrorIf(absent("type")
                      \/ row.type \notin {"view", "like", "cook_attempt", "rating"},
                   "Invalid interaction type: ")
        \o ErrorIf(/\ ~absent("type") /\ row.type = "rating"
                   /\ \/ absent("rating")
                      \/ ToInt(row.rating) < 1
                      \/ ToInt(row.rating) > 5,
                   "Rating out of bounds or missing for rating type: ")
        \o ErrorIf(absent("timestamp"), "Missing timestamp")

\* an interaction that is valid but for its type and rating
Interaction(ty, ra) ==
    <<[interaction_id |-> "x1", user_id |-> "u1", recipe_id |-> "r1", type |-> ty,
       rating |-> ra, timestamp |-> "t"]>>

\* C21: the rating of an interaction is checked only when its type is
\* rating, and then fails iff it is missing, null, < 1 or > 5; user_id,
\* recipe_id and timestamp fail iff missing or null, type iff it is not one
\* of view, like, cook_attempt, rating.  An otherwise valid row is valid as
\* a view with a null rating and as a rating of 4, invalid as a rating of 7.
C21_RatingConditional ==
    (pc = "validated" /\ input.entity = "interactions") =>
        LET row == input.file[1]
            rec == output.report[1]
            rating_error == "Rating out of bounds or missing for rating type: "
        IN  /\ Texts(rec.errors) = InteractionTableErrors(row)
            /\ rec.is_valid = (InteractionTableErrors(row) = <<>>)
            /\ ("type" \notin DOMAIN row \/ row.type # "rating") =>
                  \A j \in 1..Len(rec.errors) : rec.errors[j].text # rating_error
            /\ input.file = Interaction("view", "") => rec.is_valid
            /\ input.file = Interaction("rating", "4") => rec.is_valid
            /\ input.file = Interaction("rating", "1") => rec.is_valid
            /\ input.file = Interaction("rating", "5") => rec.is_valid
            /\ input.file = Interaction("rating", "7") =>
                  /\ ~rec.is_valid
                  /\ Texts(rec.errors) = <<rating_error>>

\* C21 witness: an otherwise valid view whose rating is 7 was validated
C21_Witness ==
    /\ pc = "validated" /\ input.entity = "interactions"
    /\ input.file = Interaction("view", "7")
    /\ Len(output.report) = 1

\* C22: a users frame without user_id column raises nothing: all its rows
\* go to the quarantine partition, the clean file is written and empty, and
\* the report still gets the records of the entities validated after it.
C22_UsersFatalCase ==
    (input.entity = "users" /\ "user_id" \notin Columns(read_csv(input.file))) =>
        /\ pc = "validated" =>
              /\ output.quarantine = read_csv(input.file)
              /\ Len(output.quarantine) = Len(input.file)
              /\ Len(output.clean) = 0
              /\ DOMAIN output.files = {"quarantined", "clean"}
              /\ output.files.clean = <<>>
              /\ output.files.quarantined = input.file
        /\ pc = "reported" =>
              /\ output.users = <<>>
              /\ \A e \in {"ingredients", "steps", "interactions"} :
                    /\ Len(output[e]) = Len(frames(input)[e])
                    /\ Len(output[e]) > 0

\* C22 witness: a users file of two rows without user_id column was validated
C22_Witness ==
    /\ pc = "validated" /\ input.entity = "users"
    /\ "user_id" \notin Columns(read_csv(input.file))
    /\ Len(input.file) = 2
    /\ Len(output.quarantine) = 2

\* the numbers of rows validation.main quarantines and keeps of the files
\* it has read
QuarantinedOf(files) ==
    Len(validate_recipes(read_csv(files["recipe.csv"])).quarantine)
    + Len(validate_users(read_csv(files["users.csv"])).quarantine)
    + Len(validate_ingredients(read_csv(files["ingredients.csv"])).quarantine)
    + Len(validate_steps(read_csv(files["steps.csv"])).quarantine)
    + Len(validate_interactions(read_csv(files["interactions.csv"])).quarantine)
CleanOf(files) ==
    Len(validate_recipes(read_csv(files["recipe.csv"])).clean)
    + Len(validate_users(read_csv(files["users.csv"])).clean)
    + Len(validate_ingredients(read_csv(files["ingredients.csv"])).clean)
    + Len(validate_steps(read_csv(files["steps.csv"])).clean)
    + Len(validate_interactions(read_csv(files["interactions.csv"])).clean)

natural_key(entity) ==
    CASE entity = "recipe" -> {"recipe_id"}
      [] entity = "users" -> {"user_id"}
      [] entity = "ingredients" -> {"ingredient_id"}
      [] entity = "steps" -> {"recipe_id", "step_no"}
      [] OTHER -> {"interaction_id"}

\* the key of report_data under which an entity's records stand
report_key(entity) == IF entity = "recipe" THEN "recipes" ELSE entity

\* C18: the report has one entry for each of the five entity types, and the
\* entry of an entity holds one record per row of its input, in order, each
\* with the natural key of its row.
C18_RecordPerRow ==
    pc = "reported" =>
        /\ DOMAIN output = {"recipes", "users", "ingredients", "steps", "interactions"}
        /\ \A e \in Entities :
              LET df == frames(input)[e]
                  records == output[report_key(e)]
              IN  /\ Len(records) = Len(df)
                  /\ \A i \in 1..Len(records) :
                        /\ natural_key(e) \subseteq DOMAIN df[i]
                        /\ records[i].key = KeyOf(df[i], natural_key(e))

(***************************************************************************)
(* Further properties of the ETL runs (Spec).                              *)
(***************************************************************************)
\* the path create_next has to compute at time t: one above the highest
\* number of a version folder, 1 without one
NextPath(fsv, t) ==
    FolderName(IF VersionFolders(fsv) = {} THEN 1
               ELSE 1 + (CHOOSE m \in {d.num : d \in VersionFolders(fsv)} :
                            \A d \in VersionFolders(fsv) : d.num <= m),
               t)

\* C12: when a run starts and the path of its new folder exists already, the
\* run fails and leaves the output root and the checkpoint as they are; a
\* run never takes an existing entry as its new folder.
C12_CollisionAborts ==
    [][/\ (pc = "idle" /\ runs' # runs /\ NextPath(fs, now) \in DOMAIN fs) =>
             /\ fs' = fs
             /\ checkpoint' = checkpoint
             /\ pc' = "idle"
             /\ outcome' = "failed"
       /\ (new_version_dir' # new_version_dir /\ new_version_dir' # NoDir) =>
             new_version_dir' \notin DOMAIN fs
      ]_vars

\* C12 witness: a run has failed on the collision with a regular file that
\* has the name of the first version folder (no I/O failure has happened)
C12_Witness ==
    /\ pc = "idle" /\ outcome = "failed" /\ faults = 0
    /\ NextPath(fs, now) \in DOMAIN fs
    /\ fs[NextPath(fs, now)] = StrayFile

\* C14: a run whose backup step fails still gets its new folder and goes
\* on to the extraction (it is not aborted by the backup).
C14_BackupFailureDoesNotAbort ==
    [][(pc = "idle" /\ runs' # runs /\ faults' # faults
          /\ NextPath(fs, now) \notin DOMAIN fs) =>
             /\ pc' = "fetch"
             /\ new_version_dir' = NextPath(fs, now)
             /\ new_version_dir' \in DOMAIN fs'
      ]_vars

\* the documents of a fetched list
DocsOf(list) == {list[i] : i \in 1..Len(list)}

\* C15: a run that finds the checkpoint file missing, empty or unparsable
\* is not stopped by it and runs as a first run does: it reads no timestamp,
\* is not incremental, numbers its folder one above the highest, extracts
\* every document and writes the new rows unmerged.
C15_CheckpointFallback ==
    [][/\ (pc = "idle" /\ runs' # runs /\ checkpoint.fmt # "iso"
              /\ faults' = faults /\ NextPath(fs, now) \notin DOMAIN fs) =>
             /\ pc' = "fetch"
             /\ last_ts' = None
             /\ incremental' = FALSE
             /\ new_version_dir' = NextPath(fs, now)
       /\ (pc = "fetch" /\ pc' = "save" /\ ckpt_before.fmt # "iso") =>
             \A c \in DOMAIN source :
                 /\ DocsOf(data'[c]) = {x.d : x \in source[c]}
                 /\ Len(data'[c]) = Cardinality(source[c])
       /\ (pc = "save" /\ ckpt_before.fmt # "iso") =>
             \A f \in DOMAIN fs'[new_version_dir].files :
                 fs'[new_version_dir].files[f] = to_csv(new_rows(data, f))
      ]_vars

\* C15 witness: a run that found an unparsable checkpoint next to a complete
\* earlier snapshot with rows has written its own snapshot
C15_Witness ==
    /\ pc = "checkpoint"
    /\ ckpt_before = Garbage
    /\ Complete(fs, prev_version_dir)
    /\ fs[prev_version_dir].files["recipe.csv"] # <<>>
    /\ Complete(fs, new_version_dir)
    /\ fs[new_version_dir].files["recipe.csv"] # <<>>

\* the previous version holds file f and f cannot be read, in an
\* incremental run
Damaged(f) ==
    /\ incremental
    /\ prev_version_dir # NoDir
    /\ FileExists(fs, prev_version_dir, f)
    /\ ~CsvReadable(fs[prev_version_dir].files[f])

\* C24: when an incremental run merges an entity whose previous file exists
\* and cannot be read, the merge raises nothing and gives the new rows
\* alone: without an I/O failure of its own the run writes them to the new
\* version and goes on to save the checkpoint.
C24_DamagedPriorSnapshot ==
    [][(pc = "save" /\ pc' # pc /\ faults' = faults) =>
          /\ pc' = "checkpoint"
          /\ \A f \in FileSet :
                Damaged(f) =>
                    /\ FileExists(fs', new_version_dir, f)
                    /\ fs'[new_version_dir].files[f] = to_csv(new_rows(data, f))
      ]_vars

\* C24 witness: an incremental run has written new rows of an entity whose
\* previous file could not be read, and is about to save the checkpoint
C24_Witness ==
    /\ pc = "checkpoint" /\ incremental /\ prev_version_dir # NoDir
    /\ \E f \in FileSet :
          /\ FileExists(fs, prev_version_dir, f)
          /\ ~CsvReadable(fs[prev_version_dir].files[f])
          /\ fs[new_version_dir].files[f] # <<>>

\* C25: the checkpoint file is absent or holds one complete timestamp, and
\* every timestamp written to it is greater than or equal to the one it
\* replaces.
C25_CheckpointMonotonic ==
    [][/\ checkpoint'.fmt \in {"nofile", "iso"}
       /\ (checkpoint' # checkpoint /\ checkpoint.fmt = "iso") =>
             checkpoint'.t >= checkpoint.t
      ]_vars

\* C26: when the checkpoint cannot be written at the end of a run, the run
\* still ends normally with its new version in place, and the checkpoint
\* file keeps the value it had.
C26_CheckpointWriteFailure ==
    [][(pc = "checkpoint" /\ pc' # pc /\ faults' # faults) =>
          /\ fs' = fs
          /\ Complete(fs, new_version_dir)
          /\ pc' = "idle" /\ outcome' = "ok"
          /\ checkpoint' = checkpoint
      ]_vars

\* C30: the version folders of the output root carry pairwise distinct
\* numbers; a run creates at most one entry of the root, when it starts,
\* and the number of that folder is greater than the number of every
\* version folder the run found.
C30_DistinctVersionNumbers ==
    [][/\ \A d \in VersionFolders(fs') : \A e \in VersionFolders(fs') :
             d # e => d.num # e.num
       /\ DOMAIN fs \subseteq DOMAIN fs'
       /\ Cardinality(DOMAIN fs' \ DOMAIN fs) <= 1
       /\ DOMAIN fs' # DOMAIN fs => (pc = "idle" /\ runs' = runs + 1)
       /\ \A d \in DOMAIN fs' \ DOMAIN fs :
             /\ d \in VersionFolders(fs')
             /\ \A e \in VersionFolders(fs) : d.num > e.num
      ]_vars

\* C30 witness: two runs have each created a version folder, the first
\* of them failed
C30_Witness ==
    /\ runs = 2 /\ faults = 1
    /\ Cardinality(VersionFolders(fs)) = 2
    /\ \E d \in VersionFolders(fs) : ~Complete(fs, d)

(***************************************************************************)
(* Properties of serialized runs (SpecSerial).                             *)
(***************************************************************************)
\* the natural keys of the rows of file f of folder d
KeysIn(fsv, d, f) == Keys(read_csv(fsv[d].files[f]), key_columns(f))

\* C28: when a successful incremental run writes its snapshot, every key of
\* every entity file of every snapshot an earlier successful run wrote is
\* in that entity's file of the new snapshot.
C28_NoKeyLost ==
    [][(pc = "save" /\ pc' = "checkpoint" /\ incremental) =>
          \A d \in DOMAIN fs : \A f \in FileSet :
              (d # new_version_dir /\ fs[d].isdir /\ Complete(fs, d)) =>
                  KeysIn(fs, d, f) \subseteq KeysIn(fs', new_version_dir, f)
      ]_vars

\* C29: when a successful run follows a successful run and the source was
\* not written since the first began, the second is incremental, fetches no
\* document, and writes a version whose five entity files hold the rows of
\* the version before it.
C29_IdempotentRuns ==
    [][(/\ pc = "save" /\ pc' = "checkpoint"
        /\ faults = 0 /\ outcome = "ok"
        /\ prev_version_dir # NoDir) =>
          /\ incremental
          /\ data = NoData
          /\ \A f \in FileSet :
                read_csv(fs'[new_version_dir].files[f])
                   = read_csv(fs[prev_version_dir].files[f])
      ]_vars

(***************************************************************************)
(* SpecBackup: the backup step of main alone, between calls of             *)
(* create_new_version_dir, on roots that hold earlier snapshots.           *)
(***************************************************************************)
\* roots that hold the version folders 1..k, each with a complete snapshot
\* or without files
SnapshotRoots ==
    UNION {[{FolderName(n, 0) : n \in 1..k} ->
               {[isdir |-> TRUE, files |-> FlatFiles], EmptyDir}] :
              k \in 0..MaxVersionNum}

InitBackup ==
    /\ AtRest
    /\ now = 0
    /\ runs = 0
    /\ pc = "idle"
    /\ fs \in SnapshotRoots
    /\ input = fs
    /\ output = <<>>

\* main: prev_version_dir = get_latest_version_dir();
\* backup_previous_version(prev_version_dir).  outcome tells whether the call
\* returned or raised (os.makedirs(backup_root) is outside the try).
Backup ==
    /\ runs < MaxCalls
    /\ runs' = runs + 1
    /\ \E prev \in get_latest_version_dir(fs) : \E bk \in BackupOutcomes(prev) :
          /\ prev_version_dir' = prev
          /\ faults' = Failed(bk)
          /\ backup' = IF bk = "root_fails" THEN backup
                        ELSE backup_previous_version(backup, fs, prev, bk)
          /\ outcome' = IF bk = "root_fails" THEN "failed" ELSE "ok"
    /\ UNCHANGED <<now, fs, pc, input, output, source, checkpoint, last_ts,
                   new_version_dir, incremental, data, history, val_input,
                   orchestrated>>

NextBackup ==
    \/ Tick
    \/ CreateNext
    \/ Backup

SpecBackup == InitBackup /\ [][NextBackup]_vars

\* C13: a backup, once there, is never written again; a backup is added
\* only for the version folder that is the latest at that time (so before
\* the next one exists), under that folder's name, as a copy of its files
\* or what a failed copy left; without a version folder nothing is added.
C13_BackupOnce ==
    [][/\ \A d \in DOMAIN backup : d \in DOMAIN backup' /\ backup'[d] = backup[d]
       /\ \A d \in DOMAIN backup' \ DOMAIN backup :
             /\ VersionFolders(fs) # {}
             /\ IsLatest(d, fs)
             /\ backup'[d] \in {fs[d].files, EmptyFiles}
       /\ Cardinality(DOMAIN backup' \ DOMAIN backup) <= 1
      ]_vars

\* C13 witness: the backup of the latest version was called twice; the
\* first copy failed part-way, the second call found the destination and
\* left it as it was
C13_Witness ==
    /\ runs = 2 /\ output = <<>> /\ outcome = "ok"
    /\ prev_version_dir \in DOMAIN backup
    /\ backup[prev_version_dir] = EmptyFiles
    /\ fs[prev_version_dir].files = FlatFiles
====
